---- MODULE Spec2Model ----
(***************************************************************************)
(* URL shortener: the in-memory store of services/urlService.js (class     *)
(* URLService over the two module-level Maps urlStore and shortcodeToUrl)  *)
(* and the Express handlers of server.js that call it; and the form of     *)
(* the React component URLShortener with its list of rows.                 *)
(*                                                                         *)
(* Node runs every synchronous function to completion, so each service     *)
(* method is one atomic action; a handler is cut at its awaits.            *)
(*                                                                         *)
(* Time is counted in ticks of half a minute; a moment is the tick it      *)
(* denotes.  toISOString()/moment(string) keep millisecond precision and   *)
(* invert each other, so a stored timestamp is the tick itself.            *)
(*                                                                         *)
(* These specifications share the operators that model the service:        *)
(*   Spec          every service method, in any order as time passes;      *)
(*   SpecCreate    createShortURL over all its argument shapes;            *)
(*   SpecGenerate  generateShortcode over explicit runs of nanoid(8);      *)
(*   SpecAnyId     createShortURL when nanoid() may return an id again;    *)
(*   SpecHttp      the handlers of server.js serving concurrent requests;  *)
(*   SpecPost      the POST /shorturls handler alone, over more requests;  *)
(*   SpecRows      the form with rows added, removed and edited;           *)
(*   SpecForm      the form with shortenUrl requests in flight as well.    *)
(***************************************************************************)
EXTENDS Integers, Sequences, FiniteSets, Bags, TLC

VARIABLES
    urlStore,        \* Map id -> urlEntry                     (urlService.js:5)
    shortcodeToUrl,  \* Map shortcode -> id                    (urlService.js:6)
    now,             \* the wall clock read by moment()
    ret,             \* the last service call: its arguments and what it returned or threw
    createdLog,      \* history: one record per createShortURL call that returned
    clickCalls,      \* history: per shortcode, the referrers passed to recordClick
                     \* while the entry existed and its validity window was open
    reqs,            \* the HTTP requests: arrived, inside their handler, answered
    running,         \* the request whose handler is between two awaits, or 0
    urls,            \* URLShortener.js: the state `urls` of the form, its rows
    calls,           \* the shortenUrl calls waiting at their await
    formLog          \* history of the form: what was done to it so far

server == <<urlStore, shortcodeToUrl, now, ret, createdLog, clickCalls, reqs, running>>
form == <<urls, calls, formLog>>
vars == <<server, form>>

----------------------------------------------------------------------------
(* Bounds of the exploration. *)

MaxLoad == 3         \* entries plus click records the store may hold
MaxTime == 1         \* width of each window of clock readings
MaxRequests == 2     \* HTTP requests received, of any route
MaxPosts == 3        \* HTTP requests received when all are POST /shorturls
MaxId == 5           \* highest row id the form hands out
MaxShortens == 2     \* shortenUrl calls
MaxEdits == 2        \* updateUrl calls
MaxRows == 3         \* rows of the form while requests are sent

(* Program constants. *)

DefaultValidity == 30    \* validity = 30
maxAttempts == 10        \* const maxAttempts = 10
TicksPerMinute == 2      \* the unit 'minutes' of moment.add, in ticks
MaxUrls == 5             \* urls.length >= 5

----------------------------------------------------------------------------
(* JavaScript values that reach the service as arguments. *)

Undefined == [t |-> "undefined"]
Null == [t |-> "null"]
Num(n) == [t |-> "number", n |-> n]
Str(s) == [t |-> "string", s |-> s]     \* s: the characters, or the pieces of a URL

\* ToBoolean: what `if (x)`, `!x`, `x && ...` and `x || ...` test.
Truthy(x) ==
    CASE x.t = "undefined" -> FALSE
      [] x.t = "null" -> FALSE
      [] x.t = "number" -> x.n # 0
      [] x.t = "string" -> x.s # <<>>
      [] OTHER -> TRUE

Or(x, fallback) == IF Truthy(x) THEN x ELSE fallback

\* A default parameter value applies to undefined only.
Default(x, d) == IF x = Undefined THEN d ELSE x

----------------------------------------------------------------------------
(* Inputs. *)

AlphaNum == {"a", "b", "c", "1", "2", "3", "V", "S", "t", "G", "X", "R", "8", "Z", "k", "9", "Q", "m"}

G1 == <<"V", "1", "S", "t", "G", "X", "R", "8">>     \* nanoid(8) results
G2 == <<"Z", "_", "a", "-", "k", "9", "Q", "m">>
NanoidCodes == {G1, G2}

Ab == <<"a", "b">>
Zzz == <<"Z", "Z", "Z">>                               \* never created

CustomShortcodes == {Undefined, Str(G1), Str(Ab), Str(<<>>), Num(0), Num(7)}
LookupShortcodes == {G1, G2, Zzz}

UrlPage == <<"https:", "//example.com/page">>
UrlX == <<"http:", "//x.com">>
UrlFtp == <<"ftp:", "//files.example.com">>
UrlBad == <<"not-a-url">>
OriginalURLs == {Str(UrlPage), Str(UrlX), Str(UrlFtp), Str(UrlBad)}

Validities == {Undefined, Num(0), Num(-5), Num(1), Str(<<"a", "b", "c">>)}

Google == Str(<<"https:", "//google.com">>)
Addr == Str(<<"1", "0", ".", "0", ".", "0", ".", "1">>)
ClickArgs == {<<Null, Null>>, <<Google, Addr>>}

\* The clock is read around the two expiry boundaries the inputs produce.
ClockReadings ==
    {b + k : b \in {0, DefaultValidity * TicksPerMinute}, k \in 0..MaxTime}

----------------------------------------------------------------------------
(* URLService *)

Schemes == {"http:", "https:", "ftp:"}

\* new URL(url): throws unless the text is an absolute URL; .protocol is its scheme.
URLParse(url) ==
    IF url.t = "string" /\ Len(url.s) >= 2 /\ url.s[1] \in Schemes
    THEN [ok |-> TRUE, protocol |-> url.s[1]]
    ELSE [ok |-> FALSE, protocol |-> ""]

validateURL(url) ==
    LET urlObj == URLParse(url)
    IN  IF urlObj.ok
        THEN urlObj.protocol = "http:" \/ urlObj.protocol = "https:"
        ELSE FALSE

validateShortcode(shortcode) ==
    IF ~Truthy(shortcode) \/ shortcode.t # "string"
    THEN FALSE
    ELSE /\ Len(shortcode.s) >= 3
         /\ Len(shortcode.s) <= 20
         /\ \A i \in 1..Len(shortcode.s) : shortcode.s[i] \in AlphaNum

Exhausted == [threw |-> TRUE, message |-> "Unable to generate unique shortcode"]

\* The do-while of generateShortcode with `attempts` draws made so far: the set
\* of its outcomes over all values nanoid(8) may return.
RECURSIVE generateLoop(_)
generateLoop(attempts) ==
    IF attempts + 1 > maxAttempts
    THEN {Exhausted}
    ELSE {[threw |-> FALSE, shortcode |-> c] : c \in NanoidCodes \ DOMAIN shortcodeToUrl}
         \cup (IF NanoidCodes \cap DOMAIN shortcodeToUrl # {}
               THEN generateLoop(attempts + 1)
               ELSE {})

\* A faulty variant: the loop gives up one candidate early.
RECURSIVE generateRunEarly(_, _)
generateRunEarly(candidates, attempts) ==
    LET shortcode == candidates[attempts + 1]
    IN  IF attempts + 1 >= maxAttempts
        THEN [threw |-> TRUE, message |-> Exhausted.message, drawn |-> attempts + 1]
        ELSE IF shortcode \in DOMAIN shortcodeToUrl
        THEN generateRunEarly(candidates, attempts + 1)
        ELSE [threw |-> FALSE, shortcode |-> shortcode, drawn |-> attempts + 1]

\* The do-while of generateShortcode when the successive values of nanoid(8)
\* are candidates[1], candidates[2], ... and `attempts` draws were made so far;
\* `drawn` counts the values taken from nanoid(8).
RECURSIVE generateRun(_, _)
generateRun(candidates, attempts) ==
    LET shortcode == candidates[attempts + 1]
    IN  IF attempts + 1 > maxAttempts
        THEN [threw |-> TRUE, message |-> Exhausted.message, drawn |-> attempts + 1]
        ELSE IF shortcode \in DOMAIN shortcodeToUrl
        THEN generateRun(candidates, attempts + 1)
        ELSE [threw |-> FALSE, shortcode |-> shortcode, drawn |-> attempts + 1]

\* The values nanoid(8) may return in one call of generateShortcode.
CandidateSeqs == [1..maxAttempts + 1 -> NanoidCodes]

\* A faulty variant: the candidate is returned without the collision test.
generateShortcodeUnchecked == {[threw |-> FALSE, shortcode |-> c] : c \in NanoidCodes}

generateShortcode == generateLoop(0)

\* A faulty variant: an entry is expired from its expiry instant on.
IsSameOrAfter(m, other) == m >= other

\* A faulty variant: nothing ever counts as expired.
IsNeverAfter(m, other) == FALSE

\* moment().isAfter(expiryTime)
IsAfter(m, other) == m > other

\* A faulty variant: a shortcode counts as taken only while its entry is live.
IndexHasLive(shortcode) ==
    /\ shortcode \in DOMAIN shortcodeToUrl
    /\ ~IsAfter(now, urlStore[shortcodeToUrl[shortcode]].expiryTime)

\* A faulty variant: the collision test is missing.
IndexHasNothing(shortcode) == FALSE

\* shortcodeToUrl.has(customShortcode)
IndexHas(shortcode) == shortcode \in DOMAIN shortcodeToUrl

\* moment.add(amount, 'minutes') on the moment m: m is changed in place and returned.
MomentAdd(m, amount) ==
    m + (IF amount.t = "number" THEN amount.n ELSE 0) * TicksPerMinute

Base == "http://localhost:5000/"

Threw(message) ==
    [threw |-> TRUE, message |-> message,
     urlStore |-> urlStore, shortcodeToUrl |-> shortcodeToUrl]

\* The object literal of urlEntry.
NewEntry(id, originalURL, shortcode, createdAt, expiryTime) ==
    [id |-> id,
     originalURL |-> originalURL,
     shortcode |-> shortcode,
     createdAt |-> createdAt,
     expiryTime |-> expiryTime,
     clicks |-> <<>>,
     totalClicks |-> 0]

\* Map.prototype.set on a Map held as a function.
MapSet(map, key, value) ==
    [k \in DOMAIN map \cup {key} |-> IF k = key THEN value ELSE map[k]]

\* A faulty variant: the store is rebuilt around the new entry.
StoreSetAlone(id, urlEntry) == [k \in {id} |-> urlEntry]

\* urlStore.set(urlEntry.id, urlEntry)
StoreSet(id, urlEntry) == MapSet(urlStore, id, urlEntry)

\* A faulty variant: every shortcode is pointed at the first entry.
IndexSetFirst(shortcode, id) == MapSet(shortcodeToUrl, shortcode, 1)

\* A faulty variant: the shortcode index is not updated.
IndexSetSkipped(shortcode, id) == shortcodeToUrl

\* shortcodeToUrl.set(shortcode, urlEntry.id)
IndexSet(shortcode, id) == MapSet(shortcodeToUrl, shortcode, id)

\* createShortURL with `generated` the outcome of generateShortcode() and `id`
\* the value of nanoid(), should the call get that far.
createShortURL(originalURL, validityArg, customArg, generated, id) ==
    LET validity == Default(validityArg, Num(DefaultValidity))
        customShortcode == Default(customArg, Null)
    IN  IF ~validateURL(originalURL)
        THEN Threw("Invalid URL format")
        ELSE IF Truthy(validity) /\ (validity.t # "number" \/ validity.n <= 0)
        THEN Threw("Validity must be a positive integer")
        ELSE IF Truthy(customShortcode) /\ ~validateShortcode(customShortcode)
        THEN Threw("Custom shortcode must be alphanumeric and 3-20 characters long")
        ELSE IF Truthy(customShortcode) /\ IndexHas(customShortcode.s)
        THEN Threw("Custom shortcode already exists")
        ELSE IF ~Truthy(customShortcode) /\ generated.threw
        THEN Threw(generated.message)
        ELSE
            LET shortcode == IF Truthy(customShortcode)
                             THEN customShortcode.s
                             ELSE generated.shortcode
                createdAt == MomentAdd(now, validity)   \* moment(), then changed by add
                expiryTime == createdAt                  \* add returns its receiver
                urlEntry == NewEntry(id, originalURL, shortcode, createdAt, expiryTime)
            IN  [threw |-> FALSE,
                 value |-> [shortLink |-> <<Base, shortcode>>, expiry |-> expiryTime],
                 urlStore |-> StoreSet(urlEntry.id, urlEntry),
                 shortcodeToUrl |-> IndexSet(shortcode, urlEntry.id)]

getURLByShortcode(shortcode) ==
    IF shortcode \notin DOMAIN shortcodeToUrl
    THEN Null
    ELSE LET urlId == shortcodeToUrl[shortcode]
         IN  IF urlId \notin DOMAIN urlStore
             THEN Null
             ELSE IF IsAfter(now, urlStore[urlId].expiryTime)
             THEN Null
             ELSE urlStore[urlId]

\* A faulty variant: a click also moves the entry's expiry to the click time.
PushClickRenewing(urlEntry, clickData) ==
    [urlEntry EXCEPT !.clicks = Append(urlEntry.clicks, clickData),
                     !.totalClicks = urlEntry.totalClicks + 1,
                     !.expiryTime = clickData.timestamp]

\* A faulty variant: the record is put in front of the earlier ones.
PushClickFirst(urlEntry, clickData) ==
    [urlEntry EXCEPT !.clicks = <<clickData>> \o urlEntry.clicks,
                     !.totalClicks = urlEntry.totalClicks + 1]

\* A faulty variant: the record is appended twice.
PushClickTwice(urlEntry, clickData) ==
    [urlEntry EXCEPT !.clicks = Append(Append(urlEntry.clicks, clickData), clickData),
                     !.totalClicks = urlEntry.totalClicks + 1]

\* A faulty variant: the record is appended and the counter left alone.
PushClickUncounted(urlEntry, clickData) ==
    [urlEntry EXCEPT !.clicks = Append(urlEntry.clicks, clickData)]

\* A faulty variant: the record replaces the list instead of joining it.
PushClickOverwriting(urlEntry, clickData) ==
    [urlEntry EXCEPT !.clicks = <<clickData>>,
                     !.totalClicks = urlEntry.totalClicks + 1]

\* urlEntry.clicks.push(clickData); urlEntry.totalClicks++
PushClick(urlEntry, clickData) ==
    [urlEntry EXCEPT !.clicks = Append(urlEntry.clicks, clickData),
                     !.totalClicks = urlEntry.totalClicks + 1]

recordClick(shortcode, referrer, ip) ==
    IF shortcode \notin DOMAIN shortcodeToUrl
    THEN [value |-> FALSE, urlStore |-> urlStore]
    ELSE LET urlId == shortcodeToUrl[shortcode]
         IN  IF urlId \notin DOMAIN urlStore
             THEN [value |-> FALSE, urlStore |-> urlStore]
             ELSE IF IsAfter(now, urlStore[urlId].expiryTime)
             THEN [value |-> FALSE, urlStore |-> urlStore]
             ELSE
                 LET urlEntry == urlStore[urlId]
                     clickData == [timestamp |-> now,
                                   referrer |-> Or(referrer, Str(<<"direct">>)),
                                   ip |-> Or(ip, Str(<<"unknown">>)),
                                   location |-> "Unknown"]
                 IN  [value |-> TRUE,
                      urlStore |-> [urlStore EXCEPT ![urlId] = PushClick(urlEntry, clickData)]]

\* A faulty variant: the source shown is the caller's address.
ClickViewIp(click) ==
    [timestamp |-> click.timestamp, source |-> click.ip, location |-> click.location]

ClickView(click) ==
    [timestamp |-> click.timestamp, source |-> click.referrer, location |-> click.location]

StatisticsOf(urlEntry, shortcode) ==
    [shortLink |-> <<Base, shortcode>>,
     originalURL |-> urlEntry.originalURL,
     createdAt |-> urlEntry.createdAt,
     expiryTime |-> urlEntry.expiryTime,
     totalClicks |-> urlEntry.totalClicks,
     clicks |-> [i \in 1..Len(urlEntry.clicks) |-> ClickView(urlEntry.clicks[i])]]

getURLStatistics(shortcode) ==
    LET urlEntry == getURLByShortcode(shortcode)
    IN  IF urlEntry = Null THEN Null ELSE StatisticsOf(urlEntry, shortcode)

\* A faulty variant: expired entries are left out of the listing.
StoreValuesLive ==
    LET keys == SelectSeq([i \in 1..MaxLoad + 1 |-> i],
                          LAMBDA i : /\ i \in DOMAIN urlStore
                                     /\ ~(now > urlStore[i].expiryTime))
    IN  [k \in 1..Len(keys) |-> urlStore[keys[k]]]

\* Array.from(urlStore.values()): a Map iterates in insertion order, and ids are
\* numbered in the order nanoid() first returned them.
StoreValues ==
    LET keys == SelectSeq([i \in 1..MaxLoad + 1 |-> i], LAMBDA i : i \in DOMAIN urlStore)
    IN  [k \in 1..Len(keys) |-> urlStore[keys[k]]]

getAllURLs ==
    [k \in 1..Len(StoreValues) |-> StatisticsOf(StoreValues[k], StoreValues[k].shortcode)]

----------------------------------------------------------------------------
(* The service under an arbitrary sequence of calls and clock readings. *)

\* nanoid(): 21 random characters, taken as never repeating; the k-th value it
\* returns is named k.
Nanoid == {Cardinality(DOMAIN urlStore) + 1}

\* nanoid() with nothing assumed of it: a value it has returned before, or a
\* new one.
NanoidAny == 1..Cardinality(DOMAIN urlStore) + 1

NoCalls == [c \in {} |-> <<>>]

NoCall == [op |-> "none"]

\* Entries plus click records held.
Load ==
    LET RECURSIVE Sum(_)
        Sum(S) == IF S = {} THEN 0
                  ELSE LET i == CHOOSE i \in S : TRUE
                       IN  1 + Len(urlStore[i].clicks) + Sum(S \ {i})
    IN  Sum(DOMAIN urlStore)

\* A row of the form as useState and addUrl build it.
NewRow(id) ==
    [id |-> id, url |-> Str(<<>>), validity |-> Str(<<>>), shortcode |-> Str(<<>>),
     loading |-> FALSE, result |-> Null, error |-> Null]

\* Room for the requests of the larger of the two HTTP explorations.
MaxSlots == IF MaxPosts > MaxRequests THEN MaxPosts ELSE MaxRequests

Init ==
    /\ urlStore = [i \in {} |-> Null]
    /\ shortcodeToUrl = [c \in {} |-> 0]
    /\ now = 0
    /\ ret = NoCall
    /\ createdLog = {}
    /\ clickCalls = NoCalls
    /\ reqs = [r \in 1..MaxSlots |-> [state |-> "none"]]
    /\ running = 0
    /\ urls = <<NewRow(1)>>
    /\ calls = {}
    /\ formLog = [ideal |-> <<NewRow(1)>>, sent |-> 0, edits |-> 0, last |-> NoCall,
                  together |-> FALSE]

\* The validity window of shortcode c per the history of creations, not per the store.
WindowOpen(c) ==
    \E r \in createdLog : r.shortcode = c /\ now <= r.at + r.minutes * TicksPerMinute

\* The validity of a call in minutes, as the specification reads it.
Minutes(validityArg) ==
    IF validityArg = Undefined THEN 30
    ELSE IF validityArg.t = "number" THEN validityArg.n ELSE 0

\* The history after createShortURL(originalURL, validity, ...) ended as r.
LogCreate(r, originalURL, validity) ==
    IF r.threw THEN createdLog
    ELSE createdLog \cup {[shortcode |-> r.value.shortLink[2],
                           originalURL |-> originalURL,
                           at |-> now,
                           validity |-> validity,
                           minutes |-> Minutes(validity)]}

\* The history after a recordClick(shortcode, referrer, ...) call.
LogClick(shortcode, referrer) ==
    IF WindowOpen(shortcode)
    THEN [c \in DOMAIN clickCalls \cup {shortcode} |->
             IF c = shortcode
             THEN (IF c \in DOMAIN clickCalls THEN clickCalls[c] ELSE <<>>)
                  \o <<referrer>>
             ELSE clickCalls[c]]
    ELSE clickCalls

\* A createShortURL call in which nanoid() returns one of `ids`.
CreateWithId(ids, originalURL, validity, customShortcode) ==
    /\ ret = NoCall
    /\ \E generated \in generateShortcode, id \in ids :
        LET r == createShortURL(originalURL, validity, customShortcode, generated, id)
        IN  /\ IF r.threw
               THEN TRUE
               ELSE Load < MaxLoad
            /\ urlStore' = r.urlStore
            /\ shortcodeToUrl' = r.shortcodeToUrl
            /\ ret' = [op |-> "createShortURL", originalURL |-> originalURL,
                       validity |-> validity, customShortcode |-> customShortcode,
                       threw |-> r.threw,
                       result |-> IF r.threw THEN r.message ELSE r.value]
            /\ createdLog' = LogCreate(r, originalURL, validity)
            /\ UNCHANGED <<now, clickCalls, reqs, running, form>>

CallCreateShortURL(originalURL, validity, customShortcode) ==
    CreateWithId(Nanoid, originalURL, validity, customShortcode)

\* The same call when nothing is assumed of nanoid().
CallCreateShortURLAnyId(originalURL, validity, customShortcode) ==
    CreateWithId(NanoidAny, originalURL, validity, customShortcode)

\* generateShortcode() called while nanoid(8) returns `candidates` in turn.
CallGenerateShortcode(candidates) ==
    /\ ret = NoCall
    /\ LET r == generateRun(candidates, 0)
       IN  ret' = [op |-> "generateShortcode", candidates |-> candidates,
                   threw |-> r.threw, drawn |-> r.drawn,
                   result |-> IF r.threw THEN r.message ELSE r.shortcode]
    /\ UNCHANGED <<urlStore, shortcodeToUrl, now, createdLog, clickCalls, reqs, running, form>>

CallGetURLByShortcode(shortcode) ==
    /\ ret = NoCall
    /\ ret' = [op |-> "getURLByShortcode", shortcode |-> shortcode,
               result |-> getURLByShortcode(shortcode)]
    /\ UNCHANGED <<urlStore, shortcodeToUrl, now, createdLog, clickCalls, reqs, running, form>>

CallRecordClick(shortcode, referrer, ip) ==
    /\ ret = NoCall
    /\ LET r == recordClick(shortcode, referrer, ip)
       IN  /\ IF r.value
              THEN Load < MaxLoad
              ELSE TRUE
           /\ urlStore' = r.urlStore
           /\ ret' = [op |-> "recordClick", shortcode |-> shortcode,
                      referrer |-> referrer, ip |-> ip, result |-> r.value]
    /\ clickCalls' = LogClick(shortcode, referrer)
    /\ UNCHANGED <<shortcodeToUrl, now, createdLog, reqs, running, form>>

CallGetURLStatistics(shortcode) ==
    /\ ret = NoCall
    /\ ret' = [op |-> "getURLStatistics", shortcode |-> shortcode,
               result |-> getURLStatistics(shortcode)]
    /\ UNCHANGED <<urlStore, shortcodeToUrl, now, createdLog, clickCalls, reqs, running, form>>

CallGetAllURLs ==
    /\ ret = NoCall
    /\ ret' = [op |-> "getAllURLs", result |-> getAllURLs]
    /\ UNCHANGED <<urlStore, shortcodeToUrl, now, createdLog, clickCalls, reqs, running, form>>

\* The caller takes the result; the next call starts from here.
Return ==
    /\ ret # NoCall
    /\ ret' = NoCall
    /\ UNCHANGED <<urlStore, shortcodeToUrl, now, createdLog, clickCalls, reqs, running, form>>

\* Time passes between calls, never inside one.
Tick ==
    /\ ret = NoCall
    /\ \E t \in ClockReadings : t > now /\ now' = t
    /\ UNCHANGED <<urlStore, shortcodeToUrl, ret, createdLog, clickCalls, reqs, running, form>>

\* The arguments of createShortURL that decide how the store evolves.
CoreURLs == {Str(UrlPage), Str(UrlBad)}
CoreValidities == {Undefined, Num(0), Num(1)}
CoreShortcodes == {Undefined, Str(G1)}

Next ==
    \/ \E u \in CoreURLs, v \in CoreValidities, c \in CoreShortcodes :
           CallCreateShortURL(u, v, c)
    \/ \E c \in LookupShortcodes : CallGetURLByShortcode(c)
    \/ \E c \in LookupShortcodes, a \in ClickArgs : CallRecordClick(c, a[1], a[2])
    \/ \E c \in LookupShortcodes : CallGetURLStatistics(c)
    \/ CallGetAllURLs
    \/ Return
    \/ Tick

Spec == Init /\ [][Next]_vars

\* createShortURL over all its arguments, with lookups and the clock.
NextCreate ==
    \/ \E u \in OriginalURLs, v \in Validities, c \in CustomShortcodes :
           CallCreateShortURL(u, v, c)
    \/ \E c \in LookupShortcodes : CallGetURLByShortcode(c)
    \/ Return
    \/ Tick

SpecCreate == Init /\ [][NextCreate]_vars

\* generateShortcode over every run of candidates, as creations fill the index.
NextGenerate ==
    \/ \E u \in CoreURLs, v \in CoreValidities, c \in CoreShortcodes :
           CallCreateShortURL(u, v, c)
    \/ \E s \in CandidateSeqs : CallGenerateShortcode(s)
    \/ Return

SpecGenerate == Init /\ [][NextGenerate]_vars

\* createShortURL and lookups when nanoid() may repeat itself.
NextAnyId ==
    \/ \E u \in CoreURLs, v \in CoreValidities, c \in CoreShortcodes :
           CallCreateShortURLAnyId(u, v, c)
    \/ \E c \in LookupShortcodes : CallGetURLByShortcode(c)
    \/ Return
    \/ Tick

SpecAnyId == Init /\ [][NextAnyId]_vars

----------------------------------------------------------------------------
(* server.js: the Express handlers.  Each handler is an async function that  *)
(* awaits the (synchronous) service methods: the rest of the handler after   *)
(* an await runs as a microtask, before any other request's handler, so a    *)
(* handler between two awaits shares the thread with nothing but the clock.  *)

Dotted == <<"f", ".", "i">>

PostRequests ==
    {[route |-> "POST /shorturls", url |-> u, validity |-> Undefined, shortcode |-> c] :
        u \in {Str(UrlPage), Str(UrlBad), Undefined}, c \in {Undefined, Str(G1)}}

RedirectRequests ==
    {[route |-> "GET /:shortcode", shortcode |-> G1, referrer |-> h] :
        h \in {Undefined, Google}}
    \cup {[route |-> "GET /:shortcode", shortcode |-> c, referrer |-> Undefined] :
        c \in {Zzz, Dotted}}

StatisticsRequests ==
    {[route |-> "GET /shorturls/:shortcode", shortcode |-> c] : c \in {G1, Zzz}}

ListRequests == {[route |-> "GET /api/urls"]}

Requests == PostRequests \cup RedirectRequests \cup StatisticsRequests \cup ListRequests

Pending(r, route) ==
    /\ running = 0
    /\ reqs[r].state = "pending"
    /\ reqs[r].req.route = route

\* Whether another request is waiting for its handler while r's starts.
Overlaps(r) == \E o \in DOMAIN reqs : o # r /\ reqs[o].state = "pending"

\* The response is sent; the record keeps what the handler held when it answered.
Respond(r, status, body) ==
    [reqs EXCEPT ![r] = [state |-> "done", req |-> reqs[r].req,
                         overlapped |-> IF "overlapped" \in DOMAIN reqs[r]
                                        THEN reqs[r].overlapped ELSE Overlaps(r),
                         local |-> IF "local" \in DOMAIN reqs[r]
                                   THEN reqs[r].local ELSE Null,
                         status |-> status, body |-> body]]

Suspend(r, state, local) ==
    [reqs EXCEPT ![r] = [state |-> state, req |-> reqs[r].req,
                         overlapped |-> IF "overlapped" \in DOMAIN reqs[r]
                                        THEN reqs[r].overlapped ELSE Overlaps(r),
                         local |-> local]]

\* A request is received; requests take the slots in order of arrival.
Arrive(r, q) ==
    /\ reqs[r].state = "none"
    /\ \A o \in 1..r - 1 : reqs[o].state # "none"
    /\ reqs' = [reqs EXCEPT ![r] = [state |-> "pending", req |-> q]]
    /\ UNCHANGED <<urlStore, shortcodeToUrl, now, ret, createdLog, clickCalls, running, form>>

\* The catch block of POST /shorturls: the status for an error message.
PostError(message) ==
    IF message = "Invalid URL format" THEN 400
    ELSE IF message = "Validity must be a positive integer" THEN 400
    ELSE IF message = "Custom shortcode must be alphanumeric and 3-20 characters long" THEN 400
    ELSE IF message = "Custom shortcode already exists" THEN 409
    ELSE IF message = "Unable to generate unique shortcode" THEN 500
    ELSE 500

\* POST /shorturls up to its await.
PostShorturls(r) ==
    /\ Pending(r, "POST /shorturls")
    /\ LET q == reqs[r].req
       IN  IF ~Truthy(q.url)
           THEN /\ reqs' = Respond(r, 400, "URL is required")
                /\ UNCHANGED <<urlStore, shortcodeToUrl, createdLog, running>>
           ELSE \E generated \in generateShortcode, id \in Nanoid :
                    LET result == createShortURL(q.url, q.validity, q.shortcode,
                                                 generated, id)
                    IN  /\ IF result.threw THEN TRUE ELSE Load < MaxLoad
                        /\ urlStore' = result.urlStore
                        /\ shortcodeToUrl' = result.shortcodeToUrl
                        /\ createdLog' = LogCreate(result, q.url, q.validity)
                        /\ IF result.threw
                           THEN /\ reqs' = Respond(r, PostError(result.message),
                                                   result.message)
                                /\ UNCHANGED running
                           ELSE /\ reqs' = Suspend(r, "created", result.value)
                                /\ running' = r
    /\ UNCHANGED <<now, ret, clickCalls, form>>

\* POST /shorturls after its await.
PostShorturlsResume(r) ==
    /\ running = r
    /\ reqs[r].state = "created"
    /\ reqs' = Respond(r, 201, reqs[r].local)
    /\ running' = 0
    /\ UNCHANGED <<urlStore, shortcodeToUrl, now, ret, createdLog, clickCalls, form>>

\* shortcode.includes('.')
IncludesDot(shortcode) == \E i \in DOMAIN shortcode : shortcode[i] = "."

\* GET /:shortcode up to its first await.
Redirect(r) ==
    /\ Pending(r, "GET /:shortcode")
    /\ IF IncludesDot(reqs[r].req.shortcode)
       THEN /\ reqs' = Respond(r, 404, "Not found")
            /\ UNCHANGED running
       ELSE /\ reqs' = Suspend(r, "looked up", getURLByShortcode(reqs[r].req.shortcode))
            /\ running' = r
    /\ UNCHANGED <<urlStore, shortcodeToUrl, now, ret, createdLog, clickCalls, form>>

\* The click records held in `store` for shortcode c.
ClicksOf(store, c) ==
    LET RECURSIVE Sum(_)
        Sum(S) == IF S = {} THEN 0
                  ELSE LET i == CHOOSE i \in S : TRUE
                       IN  Len(store[i].clicks) + Sum(S \ {i})
    IN  Sum({i \in DOMAIN store : store[i].shortcode = c})

\* GET /:shortcode between its two awaits.  With the outcome of recordClick
\* the request notes, as history, how many click records the call added and
\* whether the validity window was open when it was made.
RedirectRecord(r) ==
    /\ running = r
    /\ reqs[r].state = "looked up"
    /\ LET q == reqs[r].req
           urlEntry == reqs[r].local
       IN  IF urlEntry = Null
           THEN /\ reqs' = Respond(r, 404, "Short URL not found")
                /\ running' = 0
                /\ UNCHANGED <<urlStore, clickCalls>>
           ELSE LET referrer == Or(q.referrer, q.referrer)
                    ip == Or(Addr, Addr)
                    click == recordClick(q.shortcode, Default(referrer, Null), ip)
                IN  /\ IF click.value THEN Load < MaxLoad ELSE TRUE
                    /\ urlStore' = click.urlStore
                    /\ clickCalls' = LogClick(q.shortcode, referrer)
                    /\ reqs' = Suspend(r, "recorded",
                                       [urlEntry |-> urlEntry, recorded |-> click.value,
                                        appended |-> ClicksOf(click.urlStore, q.shortcode)
                                                     - ClicksOf(urlStore, q.shortcode),
                                        open |-> WindowOpen(q.shortcode)])
                    /\ UNCHANGED running
    /\ UNCHANGED <<shortcodeToUrl, now, ret, createdLog, form>>

\* A faulty variant: the redirect is sent only if the click was recorded.
RedirectResumeIfRecorded(r) ==
    /\ running = r
    /\ reqs[r].state = "recorded"
    /\ reqs' = IF reqs[r].local.recorded
               THEN Respond(r, 301, reqs[r].local.urlEntry.originalURL)
               ELSE Respond(r, 404, "Short URL not found")
    /\ running' = 0
    /\ UNCHANGED <<urlStore, shortcodeToUrl, now, ret, createdLog, clickCalls, form>>

\* GET /:shortcode after its second await.
RedirectResume(r) ==
    /\ running = r
    /\ reqs[r].state = "recorded"
    /\ reqs' = Respond(r, 301, reqs[r].local.urlEntry.originalURL)
    /\ running' = 0
    /\ UNCHANGED <<urlStore, shortcodeToUrl, now, ret, createdLog, clickCalls, form>>

\* GET /shorturls/:shortcode up to its await.
Statistics(r) ==
    /\ Pending(r, "GET /shorturls/:shortcode")
    /\ reqs' = Suspend(r, "statistics", getURLStatistics(reqs[r].req.shortcode))
    /\ running' = r
    /\ UNCHANGED <<urlStore, shortcodeToUrl, now, ret, createdLog, clickCalls, form>>

\* GET /shorturls/:shortcode after its await.
StatisticsResume(r) ==
    /\ running = r
    /\ reqs[r].state = "statistics"
    /\ reqs' = IF reqs[r].local = Null
               THEN Respond(r, 404, "Short URL not found")
               ELSE Respond(r, 200, reqs[r].local)
    /\ running' = 0
    /\ UNCHANGED <<urlStore, shortcodeToUrl, now, ret, createdLog, clickCalls, form>>

\* GET /api/urls up to its await.
List(r) ==
    /\ Pending(r, "GET /api/urls")
    /\ reqs' = Suspend(r, "listed", getAllURLs)
    /\ running' = r
    /\ UNCHANGED <<urlStore, shortcodeToUrl, now, ret, createdLog, clickCalls, form>>

\* GET /api/urls after its await.
ListResume(r) ==
    /\ running = r
    /\ reqs[r].state = "listed"
    /\ reqs' = Respond(r, 200, reqs[r].local)
    /\ running' = 0
    /\ UNCHANGED <<urlStore, shortcodeToUrl, now, ret, createdLog, clickCalls, form>>

NextHttp ==
    \/ \E r \in 1..MaxRequests, q \in Requests : Arrive(r, q)
    \/ \E r \in 1..MaxRequests : PostShorturls(r)
    \/ \E r \in 1..MaxRequests : PostShorturlsResume(r)
    \/ \E r \in 1..MaxRequests : Redirect(r)
    \/ \E r \in 1..MaxRequests : RedirectRecord(r)
    \/ \E r \in 1..MaxRequests : RedirectResume(r)
    \/ \E r \in 1..MaxRequests : Statistics(r)
    \/ \E r \in 1..MaxRequests : StatisticsResume(r)
    \/ \E r \in 1..MaxRequests : List(r)
    \/ \E r \in 1..MaxRequests : ListResume(r)
    \/ Tick

SpecHttp == Init /\ [][NextHttp]_vars

\* POST /shorturls alone, with enough requests to use up the generated codes.
NextPost ==
    \/ \E r \in 1..MaxPosts, q \in PostRequests : Arrive(r, q)
    \/ \E r \in 1..MaxPosts : PostShorturls(r)
    \/ \E r \in 1..MaxPosts : PostShorturlsResume(r)
    \/ Tick

SpecPost == Init /\ [][NextPost]_vars

----------------------------------------------------------------------------
(* client/src/components/URLShortener.js: the form.  Its handlers are        *)
(* closures of one render: the `urls` they read is the state of the render   *)
(* they were made in, and setUrls(value) replaces the state by `value`.      *)
(* React renders after every event, so the handler of an event reads the     *)
(* state the event before it left; the rest of shortenUrl after its await    *)
(* still reads the state of the render in which the button was clicked.      *)
(* The snackbar is left out: nothing reads it.                               *)
(*                                                                           *)
(* formLog.ideal holds the rows as the same events give them when each is    *)
(* applied to the rows as they are at that time.                             *)

FormURLs == {Str(UrlPage), Str(<<" ">>)}

\* rows.map(u => u.id === id ? { ...u, ...changes } : u)
MapRows(rows, id, changes) ==
    [k \in DOMAIN rows |->
        IF rows[k].id = id
        THEN [f \in DOMAIN rows[k] |->
                 IF f \in DOMAIN changes THEN changes[f] ELSE rows[k][f]]
        ELSE rows[k]]

\* rows.filter(u => u.id !== id)
FilterRows(rows, id) == SelectSeq(rows, LAMBDA u : u.id # id)

RowIds(rows) == {rows[k].id : k \in DOMAIN rows}

\* A faulty variant: the id of the first row is taken for the highest.
MaxIdOfFirst(rows) == rows[1].id

\* Math.max(...urls.map(u => u.id))
MaxIdOf(rows) == CHOOSE x \in RowIds(rows) : \A y \in RowIds(rows) : y <= x

\* urls.length >= 5
AtMaximum(rows) == Len(rows) >= MaxUrls

\* String.prototype.trim on a text held as its pieces.
RECURSIVE Trim(_)
Trim(s) ==
    IF s = <<>> THEN s
    ELSE IF Head(s) = " " THEN Trim(Tail(s))
    ELSE IF s[Len(s)] = " " THEN Trim(SubSeq(s, 1, Len(s) - 1))
    ELSE s

\* What the history keeps of an addUrl or removeUrl call: the calls made on a
\* form of `limit` rows, with whether they left the rows as they were.
Noted(op, limit, rows, after) ==
    IF Len(rows) = limit
    THEN [op |-> op, rows |-> Len(rows), same |-> after = rows]
    ELSE NoCall

addUrl ==
    /\ IF AtMaximum(urls)
       THEN /\ formLog' = [formLog EXCEPT !.last = Noted("addUrl", MaxUrls, urls, urls)]
            /\ UNCHANGED urls
       ELSE LET newId == MaxIdOf(urls) + 1
            IN  /\ newId <= MaxId
                /\ urls' = Append(urls, NewRow(newId))
                /\ formLog' = [formLog EXCEPT
                                  !.ideal = Append(@, NewRow(newId)),
                                  !.last = Noted("addUrl", MaxUrls, urls, urls')]
    /\ UNCHANGED calls

removeUrl(id) ==
    /\ urls' = IF Len(urls) = 1 THEN urls ELSE FilterRows(urls, id)
    /\ formLog' = [formLog EXCEPT
                      !.ideal = IF Len(urls) = 1 THEN @ ELSE FilterRows(@, id),
                      !.last = Noted("removeUrl", 1, urls, urls')]
    /\ UNCHANGED calls

updateUrl(id, field, value) ==
    LET Edited == (field :> value) @@ [error |-> Null, result |-> Null]
    IN  /\ formLog.edits < MaxEdits
        /\ urls' = MapRows(urls, id, Edited)
        /\ formLog' = [formLog EXCEPT !.ideal = MapRows(@, id, Edited),
                                      !.edits = @ + 1,
                                      !.last = NoCall]
        /\ UNCHANGED calls

\* shortenUrl(urlData) up to its await; the button of a loading row is disabled.
\* The component's validateURL has the code of URLService.validateURL.
shortenUrl(urlData) ==
    /\ ~urlData.loading
    /\ formLog.sent < MaxShortens
    /\ IF ~Truthy(Str(Trim(urlData.url.s))) \/ ~validateURL(urlData.url)
       THEN LET Refused == [error |-> Str(<<"Please enter a valid URL">>)]
            IN  /\ urls' = MapRows(urls, urlData.id, Refused)
                /\ formLog' = [formLog EXCEPT !.ideal = MapRows(@, urlData.id, Refused),
                                              !.sent = @ + 1,
                                              !.last = NoCall]
                /\ UNCHANGED calls
       ELSE LET Loading == [loading |-> TRUE, error |-> Null]
            IN  /\ urls' = MapRows(urls, urlData.id, Loading)
                /\ calls' = calls \cup {[request |-> formLog.sent + 1,
                                          urlData |-> urlData, urls |-> urls]}
                /\ formLog' = [formLog EXCEPT !.ideal = MapRows(@, urlData.id, Loading),
                                              !.sent = @ + 1,
                                              !.last = NoCall,
                                              !.together = @ \/ calls # {}]

\* response.data of the request of `call`: each request gets a link of its own.
ResponseData(call) == [shortLink |-> <<Base, call.request>>]

\* shortenUrl after its await, axios.post having resolved.
shortenUrlResolved(call) ==
    LET Done == [loading |-> FALSE, result |-> ResponseData(call), error |-> Null]
    IN  /\ urls' = MapRows(call.urls, call.urlData.id, Done)
        /\ calls' = calls \ {call}
        /\ formLog' = [formLog EXCEPT !.ideal = MapRows(@, call.urlData.id, Done),
                                      !.last = NoCall]

\* shortenUrl in its catch, axios.post having rejected without a message.
shortenUrlRejected(call) ==
    LET Failed == [loading |-> FALSE, error |-> Str(<<"Failed to shorten URL">>)]
    IN  /\ urls' = MapRows(call.urls, call.urlData.id, Failed)
        /\ calls' = calls \ {call}
        /\ formLog' = [formLog EXCEPT !.ideal = MapRows(@, call.urlData.id, Failed),
                                      !.last = NoCall]

NextForm ==
    \/ Len(urls) < MaxRows /\ addUrl /\ UNCHANGED server
    \/ \E k \in DOMAIN urls : removeUrl(urls[k].id) /\ UNCHANGED server
    \/ \E k \in DOMAIN urls, value \in FormURLs :
           updateUrl(urls[k].id, "url", value) /\ UNCHANGED server
    \/ \E k \in DOMAIN urls : shortenUrl(urls[k]) /\ UNCHANGED server
    \/ \E call \in calls : shortenUrlResolved(call) /\ UNCHANGED server
    \/ \E call \in calls : shortenUrlRejected(call) /\ UNCHANGED server

SpecForm == Init /\ [][NextForm]_vars

\* The form with its rows added, removed and edited, and nothing sent.
NextRows ==
    \/ addUrl /\ UNCHANGED server
    \/ \E k \in DOMAIN urls : removeUrl(urls[k].id) /\ UNCHANGED server
    \/ \E k \in DOMAIN urls, value \in FormURLs :
           updateUrl(urls[k].id, "url", value) /\ UNCHANGED server

SpecRows == Init /\ [][NextRows]_vars

----------------------------------------------------------------------------
(* Properties *)

Expiry(r) == r.at + r.minutes * TicksPerMinute

CreatedCodes == {r.shortcode : r \in createdLog}

Range(f) == {f[x] : x \in DOMAIN f}

\* The bag of the elements of a sequence.
BagOf(seq) == [x \in Range(seq) |-> Cardinality({i \in DOMAIN seq : seq[i] = x})]

\* C1: no two distinct stored entries have the same shortcode, whatever
\* createShortURL calls (custom or generated, returning or throwing) were made.
C1_UniqueShortcodes ==
    \A i, j \in DOMAIN urlStore :
        i # j => urlStore[i].shortcode # urlStore[j].shortcode

\* Two entries are stored, the second under a generated shortcode drawn while
\* the other candidate was already taken.
C1_Witness ==
    /\ Cardinality(DOMAIN urlStore) = 2
    /\ ret.op = "createShortURL"
    /\ ~ret.threw
    /\ ret.customShortcode = Undefined

AnsweredPosts ==
    {r \in DOMAIN reqs : reqs[r].state = "done" /\ reqs[r].req.route = "POST /shorturls"}

Created(r) == reqs[r].status = 201

\* A POST whose body passes every check made before the collision test.
WellFormedCustom(r) ==
    /\ validateURL(reqs[r].req.url)
    /\ reqs[r].req.validity = Undefined
    /\ validateShortcode(reqs[r].req.shortcode)

\* C2: however two POST /shorturls requests are interleaved, they are never both
\* answered 201 with the same shortcode, custom or generated; and of two
\* well-formed requests with the same custom shortcode, which no third request
\* obtained, exactly one is answered 201 and the other 409.
C2_OneWinner ==
    \A r1, r2 \in AnsweredPosts :
        r1 # r2 =>
            /\ (Created(r1) /\ Created(r2))
                   => reqs[r1].body.shortLink # reqs[r2].body.shortLink
            /\ (/\ WellFormedCustom(r1)
                /\ WellFormedCustom(r2)
                /\ reqs[r1].req.shortcode = reqs[r2].req.shortcode
                /\ ~\E r3 \in AnsweredPosts \ {r1, r2} :
                       /\ Created(r3)
                       /\ reqs[r3].body.shortLink[2] = reqs[r1].req.shortcode.s)
                   => {reqs[r1].status, reqs[r2].status} = {201, 409}

\* Two requests with the same custom shortcode were waiting together; the
\* second to arrive was handled first and answered 201, the first 409.
C2_Witness ==
    /\ reqs[1].state = "done"
    /\ reqs[2].state = "done"
    /\ reqs[1].req.route = "POST /shorturls"
    /\ reqs[2].req.route = "POST /shorturls"
    /\ reqs[1].req.shortcode = Str(G1)
    /\ reqs[2].req.shortcode = Str(G1)
    /\ reqs[2].overlapped
    /\ reqs[2].status = 201
    /\ reqs[1].status = 409

\* C3: an entry created at time t with validity v minutes (30 when omitted) is
\* returned by getURLByShortcode at every time up to and including t + v and is
\* not found after it; an unknown shortcode is never found; getURLStatistics is
\* found exactly when getURLByShortcode is.
C3_VisibleUntilExpiry ==
    /\ \A r \in createdLog :
           /\ IF now <= Expiry(r)
              THEN /\ getURLByShortcode(r.shortcode) # Null
                   /\ getURLByShortcode(r.shortcode).shortcode = r.shortcode
                   /\ getURLStatistics(r.shortcode) # Null
              ELSE /\ getURLByShortcode(r.shortcode) = Null
                   /\ getURLStatistics(r.shortcode) = Null
    /\ \A c \in LookupShortcodes \ CreatedCodes :
           getURLByShortcode(c) = Null /\ getURLStatistics(c) = Null
    /\ ret.op \in {"getURLByShortcode", "getURLStatistics"} =>
           (ret.result # Null <=>
               \E r \in createdLog : r.shortcode = ret.shortcode /\ now <= Expiry(r))

\* A lookup of an entry created without a validity has answered not-found, one
\* tick after its thirty minutes.
C3_Witness ==
    /\ ret.op = "getURLByShortcode"
    /\ ret.result = Null
    /\ \E r \in createdLog :
           /\ r.shortcode = ret.shortcode
           /\ r.validity = Undefined
           /\ now = Expiry(r) + 1

\* C4: right after createShortURL(u, ...) has returned a short link, with no time
\* elapsed, getURLByShortcode of its shortcode returns an entry whose originalURL
\* is u.
C4_RoundTrip ==
    (ret.op = "createShortURL" /\ ~ret.threw) =>
        LET found == getURLByShortcode(ret.result.shortLink[2])
        IN  /\ found # Null
            /\ found.originalURL = ret.originalURL

\* A create has just returned while another entry, with the other URL, was
\* already stored.
C4_Witness ==
    /\ ret.op = "createShortURL"
    /\ ~ret.threw
    /\ \E i \in DOMAIN urlStore : urlStore[i].originalURL # ret.originalURL

\* C5: every entry's totalClicks equals the length of its clicks, in the store
\* and in every result of getURLStatistics and getAllURLs.
C5_TotalClicksIsLen ==
    /\ \A i \in DOMAIN urlStore :
           urlStore[i].totalClicks = Len(urlStore[i].clicks)
    /\ (ret.op = "getURLStatistics" /\ ret.result # Null) =>
           ret.result.totalClicks = Len(ret.result.clicks)
    /\ ret.op = "getAllURLs" =>
           \A k \in DOMAIN ret.result :
               ret.result[k].totalClicks = Len(ret.result[k].clicks)

\* getAllURLs has returned an entry with two clicks.
C5_Witness ==
    /\ ret.op = "getAllURLs"
    /\ \E k \in DOMAIN ret.result : ret.result[k].totalClicks = 2

\* C6: after N recordClick calls against a shortcode whose entry exists and has
\* not expired, in any order, the entry has totalClicks = N and N click records
\* whose referrers are, as a bag, the N referrers passed (an absent referrer
\* being recorded as "direct").
C6_ClicksAccumulate ==
    \A i \in DOMAIN urlStore :
        LET e == urlStore[i]
            passed == IF e.shortcode \in DOMAIN clickCalls
                      THEN clickCalls[e.shortcode] ELSE <<>>
        IN  /\ e.totalClicks = Len(passed)
            /\ Len(e.clicks) = Len(passed)
            /\ BagOf([k \in DOMAIN e.clicks |-> e.clicks[k].referrer])
                   = BagOf([k \in DOMAIN passed |-> Or(passed[k], Str(<<"direct">>))])

\* Two calls with different referrers were made against one live shortcode.
C6_Witness ==
    \E c \in DOMAIN clickCalls :
        /\ Len(clickCalls[c]) = 2
        /\ clickCalls[c][1] # clickCalls[c][2]
        /\ urlStore[shortcodeToUrl[c]].totalClicks = 2

C8_InvalidValidityRejected ==
    (/\ ret.op = "createShortURL"
     /\ validateURL(ret.originalURL)
     /\ ret.validity # Undefined
     /\ ~(ret.validity.t = "number" /\ ret.validity.n > 0))
    => (ret.threw /\ ret.result = "Validity must be a positive integer")

\* C9: a createShortURL call that throws leaves both Maps as they were; one that
\* returns adds exactly one key to each and leaves every other entry and
\* mapping as it was.
C9_CreateFrame ==
    [][(ret = NoCall /\ ret'.op = "createShortURL")
       => IF ret'.threw
          THEN urlStore' = urlStore /\ shortcodeToUrl' = shortcodeToUrl
          ELSE /\ DOMAIN urlStore \subseteq DOMAIN urlStore'
               /\ Cardinality(DOMAIN urlStore' \ DOMAIN urlStore) = 1
               /\ \A i \in DOMAIN urlStore : urlStore'[i] = urlStore[i]
               /\ DOMAIN shortcodeToUrl \subseteq DOMAIN shortcodeToUrl'
               /\ Cardinality(DOMAIN shortcodeToUrl' \ DOMAIN shortcodeToUrl) = 1
               /\ \A c \in DOMAIN shortcodeToUrl :
                      shortcodeToUrl'[c] = shortcodeToUrl[c]]_vars

\* A create has thrown out of generateShortcode with two entries stored, and
\* both are still there.
C9_Witness ==
    /\ ret.op = "createShortURL"
    /\ ret.threw
    /\ ret.result = "Unable to generate unique shortcode"
    /\ Cardinality(DOMAIN urlStore) = 2
    /\ Cardinality(DOMAIN shortcodeToUrl) = 2

\* C10: recordClick on a shortcode that was never created, or whose entry has
\* expired, returns false and changes neither Map; and from the moment an entry
\* has expired its clicks and totalClicks stay as they are.
C10_ExpiredClickIsNoOp ==
    [][/\ (/\ ret = NoCall
           /\ ret'.op = "recordClick"
           /\ ~\E r \in createdLog : r.shortcode = ret'.shortcode /\ now <= Expiry(r))
          => /\ ret'.result = FALSE
             /\ urlStore' = urlStore
             /\ shortcodeToUrl' = shortcodeToUrl
       /\ \A r \in createdLog : \A i \in DOMAIN urlStore :
              (urlStore[i].shortcode = r.shortcode /\ now > Expiry(r))
              => /\ i \in DOMAIN urlStore'
                 /\ urlStore'[i].clicks = urlStore[i].clicks
                 /\ urlStore'[i].totalClicks = urlStore[i].totalClicks]_vars

\* recordClick has returned false for an entry that took a click while live and
\* has expired since.
C10_Witness ==
    /\ ret.op = "recordClick"
    /\ ret.result = FALSE
    /\ \E r \in createdLog :
           /\ r.shortcode = ret.shortcode
           /\ now > Expiry(r)
           /\ urlStore[shortcodeToUrl[r.shortcode]].totalClicks = 1

\* The records of a getAllURLs result that describe shortcode c.
RecordsOf(result, c) == {k \in DOMAIN result : result[k].shortLink = <<Base, c>>}

\* C11: getAllURLs returns exactly one statistics record for every entry ever
\* created and no other record, expired or not: the record carries the
\* entry's URL and all the clicks recorded for it, also when getURLStatistics
\* answers not-found for the shortcode.
C11_ListsEveryEntry ==
    /\ Len(getAllURLs) = Cardinality(createdLog)
    /\ \A r \in createdLog :
           /\ Cardinality(RecordsOf(getAllURLs, r.shortcode)) = 1
           /\ \A k \in RecordsOf(getAllURLs, r.shortcode) :
                  /\ getAllURLs[k].originalURL = r.originalURL
                  /\ getAllURLs[k].totalClicks =
                         (IF r.shortcode \in DOMAIN clickCalls
                          THEN Len(clickCalls[r.shortcode]) ELSE 0)
                  /\ Len(getAllURLs[k].clicks) = getAllURLs[k].totalClicks
    /\ ret.op = "getAllURLs" => ret.result = getAllURLs

\* getAllURLs has returned two records, one of them for an entry that took a
\* click and has expired since, for which getURLStatistics answers not-found.
C11_Witness ==
    /\ ret.op = "getAllURLs"
    /\ Len(ret.result) = 2
    /\ \E r \in createdLog :
           /\ now > Expiry(r)
           /\ getURLStatistics(r.shortcode) = Null
           /\ \E k \in RecordsOf(ret.result, r.shortcode) :
                  ret.result[k].totalClicks = 1

\* C12: a POST /shorturls whose shortcode generation exceeded its retry bound
\* is answered 503, neither a client error nor the generic 500.
C12_ExhaustionIs503 ==
    \A r \in AnsweredPosts :
        (~Created(r) /\ reqs[r].body = Exhausted.message) => reqs[r].status = 503

AnsweredRedirects ==
    {r \in DOMAIN reqs : reqs[r].state = "done" /\ reqs[r].req.route = "GET /:shortcode"}

\* The click records the handler of the answered request r added to its target.
AppendedBy(r) == IF reqs[r].local = Null THEN 0 ELSE reqs[r].local.appended

\* C13 as stated: a GET /:shortcode answered 301 appended exactly one click
\* record to its target entry, and one answered 404 appended none, however the
\* requests interleave and the clock moves between the handler's steps.
C13_RedirectAppendsOne ==
    \A r \in AnsweredRedirects :
        /\ reqs[r].status = 301 => AppendedBy(r) = 1
        /\ reqs[r].status = 404 => AppendedBy(r) = 0

\* C13, amended: a GET /:shortcode answered 301 appended exactly one click
\* record to its target entry if the entry's validity window was still open
\* when the handler reached recordClick, and none if it had closed since the
\* lookup; one answered 404 appended none.
C13_RedirectAppendsOneIfLive ==
    \A r \in AnsweredRedirects :
        /\ reqs[r].status = 301 =>
               AppendedBy(r) = (IF reqs[r].local.open THEN 1 ELSE 0)
        /\ reqs[r].status = 404 => AppendedBy(r) = 0
        /\ reqs[r].status \in {301, 404}

\* A redirect that was waiting while the POST creating its target was handled
\* has been answered 301 after the clock had moved, having appended the one
\* click record its target holds.
C13_Witness ==
    /\ 2 \in AnsweredRedirects
    /\ reqs[2].status = 301
    /\ AppendedBy(2) = 1
    /\ reqs[1].overlapped
    /\ now > 0
    /\ ClicksOf(urlStore, reqs[2].req.shortcode) = 1

\* C14: every stored entry's expiryTime is strictly later than its createdAt
\* and equals createdAt plus the validity in minutes, in the entry and in the
\* records getURLStatistics and getAllURLs build from it.
C14_ExpiryAfterCreation ==
    /\ \A i \in DOMAIN urlStore :
           /\ urlStore[i].expiryTime > urlStore[i].createdAt
           /\ \A r \in createdLog :
                  r.shortcode = urlStore[i].shortcode =>
                      urlStore[i].expiryTime
                          = urlStore[i].createdAt + r.minutes * TicksPerMinute
    /\ \A k \in DOMAIN getAllURLs :
           getAllURLs[k].expiryTime > getAllURLs[k].createdAt
    /\ \A c \in LookupShortcodes :
           getURLStatistics(c) # Null =>
               getURLStatistics(c).expiryTime > getURLStatistics(c).createdAt

\* s is an initial segment of t.
IsPrefix(s, t) == Len(s) <= Len(t) /\ \A k \in 1..Len(s) : t[k] = s[k]

\* C15: in every step each stored entry is still stored afterwards and its
\* clicks before the step are a prefix of its clicks after it: no click record
\* is removed, changed or moved, and no entry leaves the store.
C15_ClicksAppendOnly ==
    [][\A i \in DOMAIN urlStore :
           /\ i \in DOMAIN urlStore'
           /\ urlStore'[i].shortcode = urlStore[i].shortcode
           /\ IsPrefix(urlStore[i].clicks, urlStore'[i].clicks)]_vars

\* recordClick has just added a second click record to an entry, after the
\* first and with another referrer.
C15_Witness ==
    /\ ret.op = "recordClick"
    /\ ret.result = TRUE
    /\ \E i \in DOMAIN urlStore :
           /\ Len(urlStore[i].clicks) = 2
           /\ urlStore[i].clicks[1].referrer # urlStore[i].clicks[2].referrer
           /\ urlStore[i].clicks[1].timestamp < urlStore[i].clicks[2].timestamp

\* Every shortcode of the index leads to an entry with that shortcode, and
\* every entry is reached from its own shortcode and from no other.
IndexesConsistent ==
    /\ \A c \in DOMAIN shortcodeToUrl :
           /\ shortcodeToUrl[c] \in DOMAIN urlStore
           /\ urlStore[shortcodeToUrl[c]].shortcode = c
    /\ \A i \in DOMAIN urlStore :
           {c \in DOMAIN shortcodeToUrl : shortcodeToUrl[c] = i} = {urlStore[i].shortcode}

\* nanoid() has returned a different id for every entry created so far.
IdsDistinct == Cardinality(DOMAIN urlStore) = Cardinality(createdLog)

\* C16 as stated: the two Maps are consistent in every reachable state,
\* whatever ids nanoid() returns.
C16_ConsistentForAnyIds == IndexesConsistent

\* C16, amended: the two Maps are consistent in every reachable state in which
\* nanoid() has not returned the same id for two entries.
C16_ConsistentForDistinctIds == IdsDistinct => IndexesConsistent

\* Two entries are stored under the two ids nanoid() returned, the second
\* create having just returned.
C16_Witness ==
    /\ ret.op = "createShortURL"
    /\ ~ret.threw
    /\ Cardinality(DOMAIN urlStore) = 2
    /\ Cardinality(DOMAIN shortcodeToUrl) = 2
    /\ IdsDistinct

\* The candidates among the first maxAttempts of run s that are not in the index.
FreeAmongFirst(s) == {k \in 1..maxAttempts : s[k] \notin DOMAIN shortcodeToUrl}

\* C17: generateShortcode ends after at most maxAttempts + 1 draws; it returns
\* a code absent from the index (the first absent candidate) whenever one of
\* its first maxAttempts candidates is absent, throws 'Unable to generate
\* unique shortcode' exactly when those candidates all collide, and never
\* returns a code that is in the index.  The outcomes over all runs are the
\* outcomes createShortURL may get from it.
C17_GenerateBounded ==
    /\ ret.op = "generateShortcode" =>
           /\ ret.drawn <= maxAttempts + 1
           /\ ret.threw <=> FreeAmongFirst(ret.candidates) = {}
           /\ ret.threw => ret.result = "Unable to generate unique shortcode"
           /\ ~ret.threw =>
                  /\ ret.result \notin DOMAIN shortcodeToUrl
                  /\ \E k \in FreeAmongFirst(ret.candidates) :
                         /\ ret.result = ret.candidates[k]
                         /\ ret.drawn = k
                         /\ \A j \in FreeAmongFirst(ret.candidates) : k <= j
    /\ ret = NoCall =>
           generateShortcode =
               {IF generateRun(s, 0).threw THEN Exhausted
                ELSE [threw |-> FALSE, shortcode |-> generateRun(s, 0).shortcode] :
                    s \in CandidateSeqs}

\* generateShortcode has returned its tenth candidate, the nine before it
\* being in the index.
C17_Witness ==
    /\ ret.op = "generateShortcode"
    /\ ~ret.threw
    /\ ret.drawn = maxAttempts
    /\ Cardinality(DOMAIN shortcodeToUrl) = 1

\* generateShortcode has thrown after ten candidates that were all in the index.
C17_WitnessExhausted ==
    /\ ret.op = "generateShortcode"
    /\ ret.threw
    /\ ret.drawn = maxAttempts + 1
    /\ \E j, k \in 1..maxAttempts : ret.candidates[j] # ret.candidates[k]

\* The URL and the validity of the last createShortURL call pass the checks
\* made before the shortcode is looked at.
PassesEarlierChecks ==
    /\ validateURL(ret.originalURL)
    /\ \/ ret.validity = Undefined
       \/ ret.validity.t = "number" /\ ret.validity.n > 0

\* C18: a createShortURL call that passes a custom shortcode failing
\* validateShortcode (too short, the empty string, a non-string value) throws
\* 'Custom shortcode must be alphanumeric and 3-20 characters long' and stores
\* nothing under a generated code; a call whose custom shortcode is accepted
\* stores it and returns it in shortLink unchanged.
C18_InvalidCustomRejected ==
    ret.op = "createShortURL" =>
        /\ (/\ PassesEarlierChecks
            /\ ret.customShortcode # Undefined
            /\ ~validateShortcode(ret.customShortcode))
           => /\ ret.threw
              /\ ret.result = "Custom shortcode must be alphanumeric and 3-20 characters long"
        /\ (~ret.threw /\ validateShortcode(ret.customShortcode))
           => /\ ret.result.shortLink = <<Base, ret.customShortcode.s>>
              /\ ret.customShortcode.s \in DOMAIN shortcodeToUrl
              /\ urlStore[shortcodeToUrl[ret.customShortcode.s]].shortcode
                     = ret.customShortcode.s

\* The error the specification's order of checks gives the last createShortURL
\* call, which threw and so left the index as it found it: a validity that is
\* given must be a positive number, a custom shortcode that is given must pass
\* validateShortcode and be absent from the index, and generation, which can
\* fail only on candidates that are in the index, must find a code.
FirstError ==
    LET given == ret.customShortcode # Undefined /\ ret.customShortcode # Null
    IN  IF ~validateURL(ret.originalURL)
        THEN "Invalid URL format"
        ELSE IF /\ ret.validity # Undefined
                /\ ~(ret.validity.t = "number" /\ ret.validity.n > 0)
        THEN "Validity must be a positive integer"
        ELSE IF given /\ ~validateShortcode(ret.customShortcode)
        THEN "Custom shortcode must be alphanumeric and 3-20 characters long"
        ELSE IF given /\ ret.customShortcode.s \in DOMAIN shortcodeToUrl
        THEN "Custom shortcode already exists"
        ELSE IF ~given /\ NanoidCodes \cap DOMAIN shortcodeToUrl # {}
        THEN "Unable to generate unique shortcode"
        ELSE "none"

\* C19: a createShortURL call that throws reports the first check that fails
\* in the order URL, validity, custom shortcode format, custom shortcode
\* collision, generation; an invalid URL is reported as 'Invalid URL format'
\* whatever else is wrong with the call.
C19_FirstErrorWins ==
    (ret.op = "createShortURL" /\ ret.threw) => ret.result = FirstError

\* C20: a GET /:shortcode whose lookup found the entry is never answered
\* anything but 301 with the entry's originalURL as target, whether
\* recordClick then returned true or false; no outcome of recordClick takes
\* the handler to its error response.
C20_RedirectDespiteClick ==
    \A r \in DOMAIN reqs :
        /\ (reqs[r].state = "recorded") => reqs[r].local.recorded \in BOOLEAN
        /\ (r \in AnsweredRedirects /\ reqs[r].local # Null) =>
               /\ reqs[r].status = 301
               /\ reqs[r].body = reqs[r].local.urlEntry.originalURL
               /\ \E c \in createdLog :
                      /\ c.shortcode = reqs[r].req.shortcode
                      /\ c.originalURL = reqs[r].body
        /\ r \in AnsweredRedirects => reqs[r].status # 500

\* A redirect has been answered 301 although its entry expired between the
\* lookup and recordClick, which returned false and recorded nothing.
C20_Witness ==
    \E r \in AnsweredRedirects :
        /\ reqs[r].status = 301
        /\ reqs[r].local.recorded = FALSE
        /\ ~reqs[r].local.open
        /\ ClicksOf(urlStore, reqs[r].req.shortcode) = 0

\* The fields of an entry that are fixed at its creation.
Fixed(e) == <<e.id, e.originalURL, e.shortcode, e.createdAt, e.expiryTime>>

\* C21: a recordClick(s, ...) call that returns true appends one record to the
\* clicks of the entry for s and adds one to its totalClicks, and changes
\* nothing else: every other entry, the keys of urlStore and the shortcode
\* index are as before; and no step of any operation changes the id, originalURL,
\* shortcode, createdAt or expiryTime of a stored entry.
C21_RecordClickFrame ==
    [][/\ (ret = NoCall /\ ret'.op = "recordClick" /\ ret'.result = TRUE) =>
              /\ shortcodeToUrl' = shortcodeToUrl
              /\ DOMAIN urlStore' = DOMAIN urlStore
              /\ ret'.shortcode \in DOMAIN shortcodeToUrl
              /\ \A i \in DOMAIN urlStore :
                     IF i = shortcodeToUrl[ret'.shortcode]
                     THEN /\ Len(urlStore'[i].clicks) = Len(urlStore[i].clicks) + 1
                          /\ IsPrefix(urlStore[i].clicks, urlStore'[i].clicks)
                          /\ urlStore'[i].totalClicks = urlStore[i].totalClicks + 1
                     ELSE urlStore'[i] = urlStore[i]
       /\ \A i \in DOMAIN urlStore :
              /\ i \in DOMAIN urlStore'
              /\ Fixed(urlStore'[i]) = Fixed(urlStore[i])]_vars

\* recordClick has returned true for one of two stored entries: that entry
\* holds the click and the other holds none.
C21_Witness ==
    /\ ret.op = "recordClick"
    /\ ret.result = TRUE
    /\ Cardinality(DOMAIN urlStore) = 2
    /\ urlStore[shortcodeToUrl[ret.shortcode]].totalClicks = 1
    /\ \E i \in DOMAIN urlStore : urlStore[i].totalClicks = 0

\* What getURLStatistics is to show for shortcode c after the referrers
\* `passed` were given, in this order, to the recordClick calls that succeeded.
ShowsClicks(stats, passed) ==
    /\ stats.totalClicks = Len(passed)
    /\ Len(stats.clicks) = Len(passed)
    /\ \A k \in 1..Len(passed) :
           /\ stats.clicks[k].source = Or(passed[k], Str(<<"direct">>))
           /\ stats.clicks[k].location = "Unknown"
    /\ \A j, k \in 1..Len(passed) :
           j <= k => stats.clicks[j].timestamp <= stats.clicks[k].timestamp

\* C22: for a visible entry getURLStatistics returns totalClicks 0 and no
\* clicks right after creation, and after k recordClick calls made while the
\* entry was live it returns totalClicks k and k click records in call order,
\* each with the referrer of its call as source ("direct" when none was
\* passed) and location "Unknown".
C22_StatisticsShowClicks ==
    /\ \A c \in LookupShortcodes :
           getURLStatistics(c) # Null =>
               ShowsClicks(getURLStatistics(c),
                           IF c \in DOMAIN clickCalls THEN clickCalls[c] ELSE <<>>)
    /\ (ret.op = "getURLStatistics" /\ ret.result # Null) =>
           ShowsClicks(ret.result,
                       IF ret.shortcode \in DOMAIN clickCalls
                       THEN clickCalls[ret.shortcode] ELSE <<>>)
    /\ (ret.op = "createShortURL" /\ ~ret.threw) =>
           /\ getURLStatistics(ret.result.shortLink[2]).totalClicks = 0
           /\ getURLStatistics(ret.result.shortLink[2]).clicks = <<>>

\* getURLStatistics has returned two click records for a live entry, the
\* first of a call without referrer and the second of a call with one.
C22_Witness ==
    /\ ret.op = "getURLStatistics"
    /\ ret.result # Null
    /\ ret.result.totalClicks = 2
    /\ ret.result.clicks[1].source = Str(<<"direct">>)
    /\ ret.result.clicks[2].source = Google
    /\ clickCalls[ret.shortcode] = <<Null, Google>>

\* C23: the form always has between one and five rows and no two rows share
\* an id; addUrl called with five rows and removeUrl called with one row leave
\* the rows as they were.
C23_RowsBounded ==
    /\ Len(urls) >= 1
    /\ Len(urls) <= 5
    /\ \A j, k \in DOMAIN urls : j # k => urls[j].id # urls[k].id
    /\ (formLog.last.op = "addUrl" /\ formLog.last.rows = 5) => formLog.last.same
    /\ (formLog.last.op = "removeUrl" /\ formLog.last.rows = 1) => formLog.last.same

\* addUrl has just been called on a form of five rows.
C23_Witness ==
    /\ formLog.last.op = "addUrl"
    /\ formLog.last.rows = 5
    /\ Len(urls) = 5

\* The row of `rows` with the id of u shows what u shows: its texts, its
\* result and its error.
Shown(rows, u) ==
    \E k \in DOMAIN rows :
        /\ rows[k].id = u.id
        /\ rows[k].url = u.url
        /\ rows[k].validity = u.validity
        /\ rows[k].shortcode = u.shortcode
        /\ rows[k].result = u.result
        /\ rows[k].error = u.error

\* C24: once the responses of shortenUrl requests that were in flight together
\* have all been processed, no row is loading and the form shows every row
\* with what was done to it: the result or error of its own request, and the
\* rows added and the texts edited in the meantime.
C24_ResponsesKeepRows ==
    (formLog.together /\ calls = {}) =>
        /\ \A k \in DOMAIN urls : ~urls[k].loading
        /\ \A j \in DOMAIN formLog.ideal : Shown(urls, formLog.ideal[j])

====
